---- MODULE Spec2Model ----
(***************************************************************************)
(* Model of iota/crypto/types.py: Seed.random, SigningKey.__init__,        *)
(* SigningKey.block_count and SigningKey.get_digest_trits.                 *)
(*                                                                         *)
(* get_digest_trits is modelled statement by statement, with one action    *)
(* per loop body of the block / fragment / round nesting.  The Curl        *)
(* sponge, TryteString.as_trits and TryteString.from_bytes live outside    *)
(* types.py; they are modelled from their documented contract.             *)
(***************************************************************************)
EXTENDS Integers, Sequences, FiniteSets, TLC

(* ------------------------------------------------------------------ *)
(* Sizes.  HASH_LENGTH is 243 in iota.crypto; the model runs with a   *)
(* short hash and keeps the structural relation of the program,       *)
(* BLOCK_LEN * 3 = 27 * HASH_LENGTH (2187 * 3 = 27 * 243).            *)
(* ------------------------------------------------------------------ *)
HASH_LENGTH == 3

FRAGMENTS == 27

ROUNDS == 26

BLOCK_LEN == (FRAGMENTS * HASH_LENGTH) \div 3

MaxBlocks == 2

MaxSeedLen == 5

MaxSourceCalls == 3

KeyBlockKinds == {0, 1}

ByteVals == {0, 100, 255}

(* ------------------------------------------------------------------ *)
(* Python list primitives used by the code.                           *)
(* ------------------------------------------------------------------ *)
Min(a, b) == IF a < b THEN a ELSE b

Max(a, b) == IF a < b THEN b ELSE a

Zeros(n) == [p \in 1..n |-> 0]

\* s[a:b] for 0 <= a, 0 <= b: a new list, both ends clamped to len(s).
Slice(s, a, b) ==
  LET lo == Min(a, Len(s))
      hi == Max(lo, Min(b, Len(s)))
  IN  SubSeq(s, lo + 1, hi)

\* s[a:b] = v for 0 <= a, 0 <= b: the clamped slice is replaced by v, so
\* a start at or beyond len(s) appends v.
SliceAssign(s, a, b, v) ==
  LET lo == Min(a, Len(s))
      hi == Max(lo, Min(b, Len(s)))
  IN  SubSeq(s, 1, lo) \o v \o SubSeq(s, hi + 1, Len(s))

(* ------------------------------------------------------------------ *)
(* TryteString collaborators.  A tryte is a value in -13..13.         *)
(* ------------------------------------------------------------------ *)
TryteToTrits(t) ==
  LET u == t + 13
  IN  << (u % 3) - 1, ((u \div 3) % 3) - 1, ((u \div 9) % 3) - 1 >>

\* TryteString.as_trits(): a new list, 3 trits per tryte.
AsTrits(trytes) ==
  [p \in 1..(3 * Len(trytes)) |->
     TryteToTrits(trytes[((p - 1) \div 3) + 1])[((p - 1) % 3) + 1]]

\* TryteString.from_bytes(): 2 trytes per byte.
ByteToTrytes(b) == << (b % 27) - 13, ((b \div 27) % 27) - 13 >>

FromBytes(bytes) ==
  [p \in 1..(2 * Len(bytes)) |->
     ByteToTrytes(bytes[((p - 1) \div 2) + 1])[((p - 1) % 2) + 1]]

(* ------------------------------------------------------------------ *)
(* The Curl sponge: a stateful object, absorb ingests trits into the  *)
(* state, squeeze emits HASH_LENGTH trits of the state and moves on.  *)
(* ------------------------------------------------------------------ *)
CurlModulus == 32749

CurlBase == 31

RECURSIVE CurlPow(_)
CurlPow(n) ==
  IF n = 0 THEN 1
  ELSE LET h == CurlPow(n \div 2)
           sq == (h * h) % CurlModulus
       IN  IF n % 2 = 0 THEN sq ELSE (sq * CurlBase) % CurlModulus

\* Horner value of trits[lo..hi] in base CurlBase, computed by halves.
RECURSIVE CurlPoly(_, _, _)
CurlPoly(trits, lo, hi) ==
  IF lo > hi THEN 0
  ELSE IF lo = hi THEN trits[lo] + 2
  ELSE LET mid == (lo + hi) \div 2
       IN  (CurlPoly(trits, lo, mid) * CurlPow(hi - mid)
              + CurlPoly(trits, mid + 1, hi)) % CurlModulus

CurlMix(state, trits) ==
  (state * CurlPow(Len(trits)) + CurlPoly(trits, 1, Len(trits))) % CurlModulus

RECURSIVE Pow3(_)
Pow3(n) == IF n = 0 THEN 1 ELSE 3 * Pow3(n - 1)

NewCurl(id) == [id |-> id, ops |-> << >>, state |-> 0]

CurlAbsorb(sp, trits) ==
  [sp EXCEPT !.ops = Append(@, "absorb"), !.state = CurlMix(@, trits)]

CurlOutput(sp) ==
  [p \in 1..HASH_LENGTH |-> ((sp.state \div Pow3(p - 1)) % 3) - 1]

CurlSqueeze(sp) ==
  [sp EXCEPT !.ops = Append(@, "squeeze"),
             !.state = (@ * 7 + 1) % CurlModulus]

\* H(x): a fresh sponge absorbs x and is squeezed once.
H(x) == CurlOutput(CurlAbsorb(NewCurl(0), x))

(* ------------------------------------------------------------------ *)
(* State.                                                             *)
(* ------------------------------------------------------------------ *)
VARIABLES
  key,            \* self._trytes of the SigningKey under construction / in use
  constructed,    \* TRUE once SigningKey.__init__ returned normally
  last_error,     \* exception raised by the last SigningKey(...) call
  attempt_len,    \* length in trytes of the last constructor input, -1 if none
  pc,             \* position inside get_digest_trits, "idle" outside
  raw_trits, digest, i, block_trits, key_fragment, buffer, j, k, sponge,
  buffer_alias,   \* the list (and offset) sharing storage with buffer
  ncurl,          \* Curl() instances constructed by the running call
  sched,          \* <<block, fragment, round>> of the last sponge use
  result,         \* value returned by the last get_digest_trits call
  has_result,
  returned,       \* <<key, digest>> pairs returned so far
  seed, has_seed, seed_error, source_calls, req_length, source_arg,
  source_bytes,
  source_raised   \* the exception the entropy source raised, "none" if none

keyVars == << key, constructed, last_error, attempt_len >>

localVars == << raw_trits, digest, i, block_trits, key_fragment, buffer, j, k,
                sponge, buffer_alias, ncurl, sched >>

digestVars == << pc, localVars, result, has_result, returned >>

seedVars == << seed, has_seed, seed_error, source_calls, req_length,
               source_arg, source_bytes, source_raised >>

vars == << keyVars, digestVars, seedVars >>

NoSponge == [id |-> 0, ops |-> << >>, state |-> 0]

NoAlias == [obj |-> "none", start |-> 0]

Init ==
  /\ key = << >> /\ constructed = FALSE /\ last_error = "none"
  /\ attempt_len = -1
  /\ pc = "idle"
  /\ raw_trits = << >> /\ digest = << >> /\ i = 0
  /\ block_trits = << >> /\ key_fragment = << >> /\ buffer = << >>
  /\ j = 0 /\ k = 0 /\ sponge = NoSponge /\ buffer_alias = NoAlias
  /\ ncurl = 0 /\ sched = << >>
  /\ result = << >> /\ has_result = FALSE /\ returned = {}
  /\ seed = << >> /\ has_seed = FALSE /\ seed_error = "none"
  /\ source_calls = 0 /\ req_length = 0 /\ source_arg = 0
  /\ source_bytes = << >> /\ source_raised = "none"

(* ------------------------------------------------------------------ *)
(* Constructor inputs: up to MaxBlocks whole blocks, each of a kind   *)
(* of KeyBlockKinds, followed by a tail of TailLens trytes.           *)
(* ------------------------------------------------------------------ *)
TailLens == {0, 1, BLOCK_LEN \div 3, BLOCK_LEN - 1}

BlockOf(kind) ==
  [p \in 1..BLOCK_LEN |->
     IF kind = 0 THEN 0 ELSE ((p * p + 5 * kind * p + kind) % 27) - 13]

RECURSIVE KeysOfBlocks(_)
KeysOfBlocks(n) ==
  IF n = 0 THEN {<< >>}
  ELSE {ks \o BlockOf(kind) : ks \in KeysOfBlocks(n - 1), kind \in KeyBlockKinds}

KeyInputs ==
  {ks \o [p \in 1..t |-> 0] :
     ks \in UNION {KeysOfBlocks(n) : n \in 0..MaxBlocks}, t \in TailLens}

(* ------------------------------------------------------------------ *)
(* SigningKey.__init__ and SigningKey.block_count.                    *)
(* ------------------------------------------------------------------ *)
LengthOKInTrits(trytes) == (3 * Len(trytes)) % BLOCK_LEN = 0

\* not (len(self._trytes) % self.BLOCK_LEN)
LengthOK(trytes) == Len(trytes) % BLOCK_LEN = 0

block_count == Len(key) \div BLOCK_LEN

\* The locals of get_digest_trits do not outlive the call.
ResetLocals ==
  /\ raw_trits' = << >> /\ digest' = << >> /\ i' = 0
  /\ block_trits' = << >> /\ key_fragment' = << >> /\ buffer' = << >>
  /\ j' = 0 /\ k' = 0 /\ sponge' = NoSponge /\ buffer_alias' = NoAlias
  /\ ncurl' = 0 /\ sched' = << >>

SigningKeyInit(trytes) ==
  /\ pc = "idle"
  /\ attempt_len' = Len(trytes)
  /\ IF LengthOK(trytes)
       THEN /\ key' = trytes
            /\ constructed' = TRUE
            /\ last_error' = "none"
       ELSE /\ key' = << >>
            /\ constructed' = FALSE
            /\ last_error' = "ValueError"
  /\ result' = << >> /\ has_result' = FALSE
  /\ returned' = {m \in returned : Len(m[1]) = BLOCK_LEN}
  /\ UNCHANGED << pc, localVars, seedVars >>

(* ------------------------------------------------------------------ *)
(* SigningKey.get_digest_trits.                                       *)
(* ------------------------------------------------------------------ *)
block_size == BLOCK_LEN * 3

block_start_hash == i * HASH_LENGTH

block_start == i * block_size

block_end == block_start + block_size

hash_start_overlapping == j * (HASH_LENGTH - 1)

hash_start == j * HASH_LENGTH

hash_end == hash_start + HASH_LENGTH

\* buffer = block_trits[hash_start:hash_end]: slicing a list makes a copy.
FragmentAlias == NoAlias

StoreAliasShared == [obj |-> "key_fragment", start |-> 0]

\* key_fragment[hash_start:hash_end] = buffer: the elements are copied.
StoreAlias == NoAlias

RoundSpongeLeftover ==
  [NewCurl(ncurl + 1) EXCEPT !.state = Len(result)]

RoundSpongeReused == IF k = 0 THEN NewCurl(ncurl + 1) ELSE sponge

\* sponge = Curl() inside the round loop: a new instance every round.
RoundSponge == NewCurl(ncurl + 1)

\* sponge = Curl() before the block-level absorb.
BlockSponge == NewCurl(ncurl + 1)

\* sponge.squeeze(buffer) writes the output into the list passed in, and
\* so into every list that shares its storage.
SqueezeInto(out) ==
  /\ buffer' = SliceAssign(buffer, 0, HASH_LENGTH, out)
  /\ block_trits' =
       IF buffer_alias.obj = "block_trits"
         THEN SliceAssign(block_trits, buffer_alias.start,
                          buffer_alias.start + HASH_LENGTH, out)
         ELSE block_trits
  /\ key_fragment' =
       IF buffer_alias.obj = "key_fragment"
         THEN SliceAssign(key_fragment, buffer_alias.start,
                          buffer_alias.start + HASH_LENGTH, out)
         ELSE key_fragment

\* lines 92-96: the call, up to the first evaluation of range(block_count).
GetDigestTrits ==
  /\ pc = "idle" /\ constructed
  /\ raw_trits' = AsTrits(key)
  /\ digest' = Zeros(HASH_LENGTH)
  /\ i' = 0
  /\ pc' = "for_i"
  /\ UNCHANGED << keyVars, block_trits, key_fragment, buffer, j, k, sponge,
                  buffer_alias, ncurl, sched, result, has_result, returned,
                  seedVars >>

\* lines 98-108: one more block.
BlockBegin ==
  /\ pc = "for_i" /\ i < block_count
  /\ block_trits' = Slice(raw_trits, block_start, block_end)
  /\ key_fragment' = Zeros(block_size)
  /\ buffer' = << >>
  /\ buffer_alias' = NoAlias
  /\ j' = 0
  /\ pc' = "for_j"
  /\ UNCHANGED << keyVars, raw_trits, digest, i, k, sponge, ncurl, sched,
                  result, has_result, returned, seedVars >>

\* lines 110-114: one more fragment of the block.
FragmentBegin ==
  /\ pc = "for_j" /\ j < FRAGMENTS
  /\ buffer' = Slice(block_trits, hash_start, hash_end)
  /\ buffer_alias' = [FragmentAlias EXCEPT !.start = hash_start]
  /\ k' = 0
  /\ pc' = "for_k"
  /\ UNCHANGED << keyVars, raw_trits, digest, i, block_trits, key_fragment, j,
                  sponge, ncurl, sched, result, has_result, returned,
                  seedVars >>

\* lines 116-119: one round of the fragment's chain.
Round ==
  /\ pc = "for_k" /\ k < ROUNDS
  /\ LET absorbed == CurlAbsorb(RoundSponge, buffer)
     IN  /\ SqueezeInto(CurlOutput(absorbed))
         /\ sponge' = CurlSqueeze(absorbed)
  /\ ncurl' = ncurl + 1
  /\ sched' = << i, j, k >>
  /\ k' = k + 1
  /\ UNCHANGED << keyVars, pc, raw_trits, digest, i, j, buffer_alias,
                  result, has_result, returned, seedVars >>

\* line 121: the chain's end value goes into key_fragment.
FragmentStore ==
  /\ pc = "for_k" /\ k = ROUNDS
  /\ key_fragment' = SliceAssign(key_fragment, hash_start, hash_end, buffer)
  /\ buffer_alias' = [StoreAlias EXCEPT !.start = hash_start]
  /\ j' = j + 1
  /\ pc' = "for_j"
  /\ UNCHANGED << keyVars, raw_trits, digest, i, block_trits, buffer, k,
                  sponge, ncurl, sched, result, has_result, returned,
                  seedVars >>

BlockHashEarly ==
  /\ pc = "for_j" /\ j = FRAGMENTS - 1
  /\ LET absorbed == CurlAbsorb(BlockSponge, key_fragment)
     IN  /\ SqueezeInto(CurlOutput(absorbed))
         /\ sponge' = CurlSqueeze(absorbed)
  /\ ncurl' = ncurl + 1
  /\ sched' = << i, FRAGMENTS, 0 >>
  /\ pc' = "block_store"
  /\ UNCHANGED << keyVars, raw_trits, digest, i, j, k, buffer_alias,
                  result, has_result, returned, seedVars >>

\* lines 123-125: the block-level hash of key_fragment.
BlockHash ==
  /\ pc = "for_j" /\ j = FRAGMENTS
  /\ LET absorbed == CurlAbsorb(BlockSponge, key_fragment)
     IN  /\ SqueezeInto(CurlOutput(absorbed))
         /\ sponge' = CurlSqueeze(absorbed)
  /\ ncurl' = ncurl + 1
  /\ sched' = << i, FRAGMENTS, 0 >>
  /\ pc' = "block_store"
  /\ UNCHANGED << keyVars, raw_trits, digest, i, j, k, buffer_alias,
                  result, has_result, returned, seedVars >>

\* line 127: digest[block_start:block_end] = buffer.
BlockStore ==
  /\ pc = "block_store"
  /\ digest' = SliceAssign(digest, block_start, block_end, buffer)
  /\ i' = i + 1
  /\ pc' = "for_i"
  /\ UNCHANGED << keyVars, raw_trits, block_trits, key_fragment, buffer, j, k,
                  sponge, buffer_alias, ncurl, sched, result, has_result,
                  returned, seedVars >>

\* line 129: return digest.
Return ==
  /\ pc = "for_i" /\ i = block_count
  /\ result' = digest
  /\ has_result' = TRUE
  /\ returned' = returned \cup {<< key, digest >>}
  /\ pc' = "idle"
  /\ ResetLocals
  /\ UNCHANGED << keyVars, seedVars >>

DigestStep ==
  \/ Round
  \/ FragmentBegin
  \/ FragmentStore
  \/ BlockBegin
  \/ BlockHash
  \/ BlockStore
  \/ Return

Next ==
  \/ \E trytes \in KeyInputs : SigningKeyInit(trytes)
  \/ GetDigestTrits
  \/ DigestStep

Spec == Init /\ [][Next]_vars

(* ------------------------------------------------------------------ *)
(* Seed.random.  The entropy source is an input: it either returns    *)
(* the number of bytes it was asked for, or raises.                   *)
(* ------------------------------------------------------------------ *)
SourceErrors == {"OSError", "NotImplementedError"}

RECURSIVE ByteStrings(_)
ByteStrings(n) ==
  IF n = 0 THEN {<< >>}
  ELSE {Append(bs, b) : bs \in ByteStrings(n - 1), b \in ByteVals}

SeedByteCountFloor(length) == length \div 2

\* int(ceil(length / 2)), true division, for 0 <= length.
SeedByteCount(length) == (length + 1) \div 2

SourceOutcomes(n) ==
  {[ok |-> TRUE, bytes |-> bs, err |-> "none"] : bs \in ByteStrings(n)}
    \cup {[ok |-> FALSE, bytes |-> << >>, err |-> e] : e \in SourceErrors}

SeedRandomRetry(length, outcome) ==
  /\ source_calls < MaxSourceCalls
  /\ req_length' = length
  /\ source_arg' = SeedByteCount(length)
  /\ source_calls' = IF outcome.ok THEN source_calls + 1 ELSE source_calls + 2
  /\ source_bytes' = outcome.bytes
  /\ source_raised' = outcome.err
  /\ IF outcome.ok
       THEN /\ seed' = FromBytes(outcome.bytes)
            /\ has_seed' = TRUE
            /\ seed_error' = "none"
       ELSE /\ seed' = << >>
            /\ has_seed' = FALSE
            /\ seed_error' = outcome.err
  /\ UNCHANGED << keyVars, digestVars >>

\* line 45: cls.from_bytes(source(int(ceil(length / 2))))
SeedRandom(length, outcome) ==
  /\ source_calls < MaxSourceCalls
  /\ req_length' = length
  /\ source_arg' = SeedByteCount(length)
  /\ source_calls' = source_calls + 1
  /\ source_bytes' = outcome.bytes
  /\ source_raised' = outcome.err
  /\ IF outcome.ok
       THEN /\ seed' = FromBytes(outcome.bytes)
            /\ has_seed' = TRUE
            /\ seed_error' = "none"
       ELSE /\ seed' = << >>
            /\ has_seed' = FALSE
            /\ seed_error' = outcome.err
  /\ UNCHANGED << keyVars, digestVars >>

SeedNext ==
  \E length \in 0..MaxSeedLen :
    \E outcome \in SourceOutcomes(SeedByteCount(length)) :
      SeedRandom(length, outcome)

SeedSpec == Init /\ [][SeedNext]_vars

(* ================================================================== *)
(* Properties.                                                        *)
(* ================================================================== *)
AboutToReturn == pc = "for_i" /\ i = block_count

KeyBlock(trytes, idx) == Slice(trytes, idx * BLOCK_LEN, (idx + 1) * BLOCK_LEN)

DigestSegment(d, idx) == Slice(d, idx * HASH_LENGTH, (idx + 1) * HASH_LENGTH)

\* C1: SigningKey construction succeeds exactly when the input's length in
\* trytes is a multiple of BLOCK_LEN; a failed construction raises the
\* validation error and produces no key, and every constructed key has
\* the input's length, a multiple of BLOCK_LEN.
C1_ConstructIffMultiple ==
  attempt_len >= 0 =>
    /\ constructed <=> (\E n \in 0..MaxBlocks : attempt_len = n * BLOCK_LEN)
    /\ constructed =>
         /\ last_error = "none"
         /\ Len(key) = attempt_len
         /\ Len(key) % BLOCK_LEN = 0
         /\ block_count * BLOCK_LEN = Len(key)
    /\ ~constructed => last_error = "ValueError" /\ key = << >>

C1_Witness ==
  attempt_len = BLOCK_LEN - 1 /\ ~constructed /\ last_error = "ValueError"

\* C2: the list get_digest_trits returns has block_count * HASH_LENGTH
\* trits, for every constructed key, the key of length 0 included.
C2_DigestLength ==
  has_result => Len(result) = block_count * HASH_LENGTH

\* C3: for a key of n >= 1 blocks, segment idx of the returned digest is the
\* digest get_digest_trits returned for the one-block key made of block
\* idx alone.
C3_SegmentsAreBlockDigests ==
  (has_result /\ block_count >= 1) =>
    \A idx \in 0..(block_count - 1) :
      \A m \in returned :
        m[1] = KeyBlock(key, idx) => DigestSegment(result, idx) = m[2]

C3_Witness ==
  /\ has_result /\ block_count = 2
  /\ KeyBlock(key, 0) # KeyBlock(key, 1)
  /\ \E m0, m1 \in returned :
       /\ m0[1] = KeyBlock(key, 0) /\ m1[1] = KeyBlock(key, 1)
       /\ result = m0[2] \o m1[2]
       /\ m0[2] # m1[2]

\* C4: get_digest_trits is deterministic: a run on a key whose trytes equal
\* those of an earlier run's key returns the digest the earlier run
\* returned.
C4_Deterministic ==
  /\ AboutToReturn => \A m \in returned : m[1] = key => m[2] = digest
  /\ \A m1, m2 \in returned : m1[1] = m2[1] => m1[2] = m2[2]

C4_Witness ==
  /\ AboutToReturn /\ block_count = 2
  /\ << key, digest >> \in returned

\* C5: for a requested length >= 0, Seed.random asks the source for
\* ceil(length / 2) bytes and returns their 2-trytes-per-byte expansion:
\* the seed's length is even, at least the requested length and less
\* than the requested length plus 2.
C5_SeedLength ==
  source_calls > 0 =>
    /\ 2 * source_arg >= req_length
    /\ 2 * source_arg < req_length + 2
    /\ has_seed =>
         /\ Len(source_bytes) = source_arg
         /\ Len(seed) = 2 * source_arg
         /\ Len(seed) % 2 = 0
         /\ Len(seed) >= req_length
         /\ Len(seed) < req_length + 2
         /\ \A p \in 1..Len(source_bytes) :
              (seed[2 * p - 1] + 13) + 27 * (seed[2 * p] + 13) = source_bytes[p]

C5_Witness ==
  /\ has_seed /\ req_length = 5 /\ source_arg = 3 /\ Len(seed) = 6
  /\ \E p \in 1..3 : source_bytes[p] = 255

\* C6: every Seed.random invocation calls the entropy source exactly once;
\* when that call raises, the caller sees the exception the source raised
\* and no Seed is returned.
C6_SourceCalledOnce ==
  [][/\ source_calls' = source_calls + 1
     /\ seed_error' = source_raised'
     /\ source_raised' # "none" => (~has_seed' /\ seed' = << >>)
     /\ source_raised' = "none" => has_seed']_vars

C6_Witness ==
  /\ source_calls = 1 /\ source_raised = "OSError" /\ seed_error = "OSError"
  /\ ~has_seed

(* ------------------------------------------------------------------ *)
(* The reference value of one block's digest.                         *)
(* ------------------------------------------------------------------ *)
RECURSIVE RefChain(_, _)
\* H applied n times to x (each application is evaluated, and checked to
\* be HASH_LENGTH trits long, before the next one).
RefChain(x, n) ==
  IF n = 0 THEN x
  ELSE LET y == H(x)
       IN  IF Len(y) = HASH_LENGTH THEN RefChain(y, n - 1) ELSE << >>

RefFragment(bt, jj) == Slice(bt, jj * HASH_LENGTH, (jj + 1) * HASH_LENGTH)

\* F_lo ++ ... ++ F_hi, joined by halves.
RECURSIVE RefFragments(_, _, _)
RefFragments(bt, lo, hi) ==
  IF lo = hi THEN RefChain(RefFragment(bt, lo), 26)
  ELSE LET mid == (lo + hi) \div 2
       IN  RefFragments(bt, lo, mid) \o RefFragments(bt, mid + 1, hi)

\* F_0 ++ ... ++ F_(n-1)
RefKeyFragment(bt, n) == RefFragments(bt, 0, n - 1)

RefBlockDigest(bt) == H(RefKeyFragment(bt, 27))

RefBlockTrits(idx) ==
  Slice(AsTrits(key), idx * 3 * BLOCK_LEN, (idx + 1) * 3 * BLOCK_LEN)

\* C7: a block's digest segment is H(F_0 ++ ... ++ F_26), F_j being H
\* applied 26 times to fragment j of the block and standing at
\* [j * HASH_LENGTH, (j + 1) * HASH_LENGTH) of key_fragment.
C7_BlockDigestIsReference ==
  /\ pc = "block_store" =>
       /\ Len(key_fragment) = 27 * HASH_LENGTH
       /\ key_fragment = RefKeyFragment(RefBlockTrits(i), 27)
       /\ buffer = RefBlockDigest(RefBlockTrits(i))
  /\ AboutToReturn =>
       \A idx \in 0..(block_count - 1) :
         DigestSegment(digest, idx) = RefBlockDigest(RefBlockTrits(idx))

C7_Witness ==
  /\ AboutToReturn /\ block_count = 2
  /\ DigestSegment(digest, 1) = RefBlockDigest(RefBlockTrits(1))
  /\ DigestSegment(digest, 0) # DigestSegment(digest, 1)

\* C8: during get_digest_trits every sponge instance is new, absorbs once
\* and is then squeezed once, starting from the state of a fresh sponge:
\* no instance is squeezed before it absorbed, used twice, or carried over
\* from another round, fragment or block.
C8_SpongeUsedOnce ==
  [][(pc # "idle" /\ pc' # "idle") =>
       /\ sponge'.ops \in {<< >>, << "absorb", "squeeze" >>}
       /\ ncurl' # ncurl => sponge' # sponge
       /\ sponge' # sponge =>
            /\ ncurl' = ncurl + 1
            /\ sponge'.id = ncurl'
            /\ sponge'.id > sponge.id
            /\ sponge'.ops = << "absorb", "squeeze" >>
            /\ sponge'.state =
                 CurlSqueeze(CurlAbsorb(NewCurl(0),
                   IF pc = "for_k" THEN buffer ELSE key_fragment)).state]_vars

C8_Witness ==
  /\ pc = "block_store" /\ i = 1
  /\ sponge.id = 2 * (27 * 26 + 1)
  /\ sponge.ops = << "absorb", "squeeze" >>

(* ------------------------------------------------------------------ *)
(* The schedule of sponge invocations.                                *)
(* ------------------------------------------------------------------ *)
\* <<block, fragment, round>> of the n-th invocation, n >= 1; the
\* block-level hash is written <<block, 27, 0>>.
ScheduleAt(n) ==
  LET b == (n - 1) \div (27 * 26 + 1)
      r == (n - 1) % (27 * 26 + 1)
  IN  IF r = 27 * 26 THEN << b, 27, 0 >> ELSE << b, r \div 26, r % 26 >>

\* Statements of one block: its start, 27 fragments of a start, 26 rounds
\* and a store, the block-level hash and the store into digest.
StepsPerBlock == 1 + 27 * (26 + 2) + 2

StepsDone ==
  i * StepsPerBlock
    + CASE pc = "for_i" -> 0
        [] pc = "for_j" -> 1 + j * (26 + 2)
        [] pc = "for_k" -> 1 + j * (26 + 2) + 1 + k
        [] pc = "block_store" -> 1 + 27 * (26 + 2) + 1
        [] OTHER -> 0

\* C9: the sponge invocations of a call follow the fixed schedule (blocks
\* in order, in a block fragments 0..26 in order with 26 rounds each, then
\* the block-level hash, before the next block), block_count * (27*26+1)
\* of them in all, and the call terminates: every statement of the call
\* advances it by one towards the return.
C9_FixedSchedule ==
  /\ [](pc # "idle" =>
          /\ ENABLED DigestStep
          /\ StepsDone <= block_count * StepsPerBlock
          /\ ncurl > 0 => sched = ScheduleAt(ncurl)
          /\ AboutToReturn => ncurl = block_count * (27 * 26 + 1))
  /\ [][pc # "idle" =>
          \/ pc' = "idle" /\ AboutToReturn
          \/ /\ pc' # "idle"
             /\ StepsDone' = StepsDone + 1
             /\ ncurl' \in {ncurl, ncurl + 1}]_vars

C9_Witness ==
  /\ AboutToReturn /\ block_count = 2
  /\ ncurl = 2 * (27 * 26 + 1)
  /\ sched = << 1, 27, 0 >>

\* C10: get_digest_trits leaves the key as constructed: the lists squeeze
\* writes to are copies, so the key, its block count, the trits taken from
\* it, the fragment values already stored in key_fragment and the
\* key_fragment the block-level hash absorbed all stay as they were.
C10_KeyUnchanged ==
  /\ []((pc = "for_i" /\ i = 0) => raw_trits = AsTrits(key))
  /\ []((pc = "for_j" /\ j = 0) => block_trits = RefBlockTrits(i))
  /\ [][(pc # "idle" \/ pc' # "idle") =>
          /\ key' = key
          /\ constructed' = constructed
          /\ block_count' = block_count
          /\ (pc # "idle" /\ pc' # "idle") => raw_trits' = raw_trits
          /\ (pc \in {"for_j", "for_k"} /\ pc' # "idle") =>
               /\ block_trits' = block_trits
               /\ SubSeq(key_fragment', 1, j * HASH_LENGTH)
                    = SubSeq(key_fragment, 1, j * HASH_LENGTH)
          /\ pc' = "block_store" => key_fragment' = key_fragment]_vars

C10_Witness ==
  /\ pc = "block_store" /\ i = 1 /\ block_count = 2
  /\ \E m \in returned : m[1] = key
  /\ raw_trits = AsTrits(key)
  /\ buffer # RefFragment(key_fragment, 26)

====
